---- MODULE Spec2Model ----
(***************************************************************************)
(* Orchestration core of the Objaverse 3D video generator:                 *)
(*   shared/renderer.py      render_video_task, render_with_retry          *)
(*   tasks/*.py              _render_one, TaskGenerator.generate_dataset,  *)
(*                           _parallel_render, _result_to_pair             *)
(*   shared/blender_render.py  main (the renderer subprocess, as the set   *)
(*                           of outcomes it can leave behind)              *)
(* One future per ProcessPoolExecutor.submit call; every future runs       *)
(* _render_one, which runs render_with_retry, step by step.                *)
(***************************************************************************)
EXTENDS Integers, Sequences, FiniteSets, TLC

\* ---- bounds of the model ----
MaxN == 2          \* num_samples ranges over 0..MaxN
MaxW == 2          \* config.workers ranges over 1..MaxW
MaxRetries == 2    \* config.max_retries ranges over 0..MaxRetries
MaxAssets == 2     \* the AssetSet has 1..MaxAssets members
MaxCalls == 6      \* num_samples * max_retries, the renderer calls of a run
MaxLines == 2      \* lines of an asset list
MaxIds == 2        \* distinct paths, and distinct uids, an asset list can name
MaxPaths == 2      \* object paths on the command line of one renderer run
MaxJobs == 11      \* jobs of a run whose collection loop is followed on its own
MaxOk == 2         \* successful jobs among them
MaxSamples == 24   \* --num-samples on the command line

\* ---- program constants ----
min_video_size == 50000
NUM_OBJECTS == 1
DefaultResolution == 1024
DefaultTimeout == 600
DefaultWorkers == 16
TaskIdWidth == 6
ProgressEvery == 10

VARIABLES
    env,        \* what TaskGenerator.__init__ finds: Blender binaries, asset list
    ctor_exc,   \* the exception that left TaskGenerator.__init__, or "none"
    blender,    \* self.blender
    pr,         \* one call of _result_to_pair: argument, state, value
    bl,         \* one run of the renderer subprocess (blender_render.py main)
    cli,        \* one run of examples/generate.py main: args and run_task calls
    sch,        \* the four tasks' generate_dataset run side by side on one batch
    config,     \* TaskConfig: domain, image_size, num_samples, workers,
                \* max_retries; serializable: json.dumps accepts the task config
    objects,    \* self.objects, the AssetSet returned by load_objects
    pc_main,    \* position of generate_dataset / _parallel_render
    fut,        \* futures in submission order; each holds its worker's locals
    fs,         \* work_dir: output directory -> files, video size, users
    collected,  \* futures already yielded by as_completed
    pairs,      \* pairs accumulated by the collection loop
    ok,
    fail,
    log         \* progress lines printed by the collection loop

vars == <<env, ctor_exc, blender, pr, bl, cli, sch, config, objects, pc_main, fut, fs, collected,
          pairs, ok, fail, log>>

\* what only TaskGenerator.__init__ reads or writes
ctorVars == <<env, ctor_exc, blender>>

\* the single calls looked at on their own
callVars == <<pr, bl, cli, sch>>

Min(a, b) == IF a < b THEN a ELSE b

\* ---- task ids and output directories ----

RECURSIVE Digits(_)
Digits(i) == IF i < 10 THEN <<i>> ELSE Digits(i \div 10) \o <<i % 10>>

RECURSIVE ZeroPad(_, _)
ZeroPad(d, width) == IF Len(d) >= width THEN d ELSE ZeroPad(<<0>> \o d, width)

\* tasks/__init__.py TASK_REGISTRY, in registry order
TASK_NAMES ==
    <<"shape_extrapolation", "occlusion_dynamics", "depth_parallax", "zoom_consistency">>

TaskKinds == { TASK_NAMES[k] : k \in 1..Len(TASK_NAMES) }

\* the module constant NUM_OBJECTS of each task
NumObjects(kind) ==
    CASE kind = "shape_extrapolation" -> NUM_OBJECTS
      [] kind = "occlusion_dynamics" -> 2
      [] kind = "depth_parallax" -> 3
      [] kind = "zoom_consistency" -> 1

\* f"{self.config.domain}_{i:06d}"
TaskId(i) == [domain |-> config.domain, num |-> ZeroPad(Digits(i), TaskIdWidth)]

OutDirShared(task_id) == [work_dir |-> "work_dir", name |-> <<>>]

\* Path(work_dir) / task_id
OutDir(task_id) == [work_dir |-> "work_dir", name |-> <<task_id>>]

ArgsListTwice(n) == [k \in 1..(n + 1) |-> TaskId(IF k <= n THEN k - 1 ELSE 0)]

\* args_list = [(f"{domain}_{i:06d}", ...) for i in range(n)]
ArgsList(n) == [k \in 1..n |-> TaskId(k - 1)]

\* ---- the renderer subprocess (shared/blender_render.py main) ----

VideoFile == "ground_truth.mp4"
StageNone == {}
StageVideo == {VideoFile}
StageAll == {VideoFile, "first_frame.png", "final_frame.png", "metadata.json"}

\* out.mkdir(parents=True, exist_ok=True) on a fresh work_dir
EmptyDir == [files |-> {}, vsize |-> 0, vby |-> 0, users |-> {}]

VideoSizes == {min_video_size, min_video_size + 1}

\* What one run of the subprocess can leave behind: how subprocess.run ended,
\* whether stdout holds RENDER_SUCCESS, which files it wrote and the size of
\* the video. main prints RENDER_SUCCESS after the last file is written.
SubprocessOutcomes ==
    { [exit |-> "oserror", sentinel |-> FALSE, files |-> StageNone, vsize |-> 0] }
    \cup { [exit |-> e, sentinel |-> FALSE, files |-> StageNone, vsize |-> 0] :
             e \in {"zero", "nonzero", "timeout"} }
    \cup { [exit |-> e, sentinel |-> FALSE, files |-> s, vsize |-> v] :
             e \in {"zero", "nonzero", "timeout"},
             s \in {StageVideo, StageAll}, v \in VideoSizes }
    \cup { [exit |-> e, sentinel |-> TRUE, files |-> StageAll, vsize |-> v] :
             e \in {"zero", "nonzero", "timeout"}, v \in VideoSizes }

\* The subprocess writes into the directory it is pointed at.
WriteFiles(dir, o) ==
    [dir EXCEPT !.files = @ \cup o.files,
                !.vsize = IF VideoFile \in o.files THEN o.vsize ELSE @]

\* ... and the video in it is the one written by that call of the job
Stamp(dir, o, call) ==
    [WriteFiles(dir, o) EXCEPT !.vby = IF VideoFile \in o.files THEN call ELSE @]

\* ---- shared/renderer.py ----

CleanedDirKeepingVideo(dir) == [dir EXCEPT !.files = @ \cap {VideoFile}]

\* for f in out.glob("*"): f.unlink(), when every unlink succeeds
CleanedDir(dir) == [dir EXCEPT !.files = {}, !.vsize = 0, !.vby = 0]

\* render_video_task: json.dumps of the arguments, then subprocess.run in a
\* try block whose handler returns False.
render_video_task(serializable, o) ==
    IF ~serializable
    THEN [raised |-> TRUE, ret |-> FALSE]
    ELSE [raised |-> FALSE,
          ret |-> (o.exit = "zero" /\ o.sentinel)]

LoopContinuesAtLeastOnce(attempt, max_retries) ==
    attempt = 0 \/ attempt < max_retries

LoopContinuesOnePast(attempt, max_retries) == attempt <= max_retries

LoopContinuesOneShort(attempt, max_retries) == attempt < max_retries - 1

\* for attempt in range(max_retries)
LoopContinues(attempt, max_retries) == attempt < max_retries

ArtifactValidIgnoringSuccess(success, dir) ==
    VideoFile \in dir.files /\ dir.vsize > min_video_size

ArtifactValidAtThreshold(success, dir) ==
    success /\ VideoFile \in dir.files /\ dir.vsize >= min_video_size

\* success and video_file.exists() and video_file.stat().st_size > min_video_size
ArtifactValid(success, dir) ==
    success /\ VideoFile \in dir.files /\ dir.vsize > min_video_size

SampleWithReplacement(all_objects, k) == [1..k -> 1..Len(all_objects)]

\* random.sample(all_objects, k): the ordered k-subsets of the positions of
\* the pool
Sample(all_objects, k) ==
    { s \in [1..k -> 1..Len(all_objects)] :
        \A a, b \in 1..k : a # b => s[a] # s[b] }

SampleObjs(all_objects, k) ==
    { [x \in 1..k |-> all_objects[s[x]]] : s \in Sample(all_objects, k) }

PoolAfterDrawRemoving(all_objects, objs) ==
    SelectSeq(all_objects, LAMBDA o : o \notin { objs[x] : x \in DOMAIN objs })

\* random.choice and random.sample read the pool and return a new list: the
\* pool they were given is the pool afterwards
PoolAfterDraw(all_objects, objs) == all_objects

\* the first draw of _render_one: [random.choice(all_objs)] in
\* shape_extrapolation and zoom_consistency,
\* random.sample(all_objs, min(NUM_OBJECTS, len(all_objs))) in the other two
InitialDraw(kind, all_objs) ==
    IF kind \in {"shape_extrapolation", "zoom_consistency"}
    THEN { <<all_objs[o]>> : o \in 1..Len(all_objs) }
    ELSE SampleObjs(all_objs, Min(NumObjects(kind), Len(all_objs)))

\* ---- shared/objects.py and find_blender ----

\* A line of the asset list: blank, a path ("/" in it or ending in .glb) or an
\* Objaverse uid; a local file of the Objaverse cache.
Entry(kind, id) == [kind |-> kind, id |-> id]
BlankLine == Entry("blank", 0)
CachePath(uid) == Entry("cache", uid.id)

\* lines = [line.strip() for line in f if line.strip()]
NonBlank(raw) == SelectSeq(raw, LAMBDA e : e.kind # "blank")

\* "/" in sample or sample.endswith(".glb")
LooksLikePath(e) == e.kind = "path"

ExistingPathsUnchecked(lines, disk) == lines

\* [p for p in lines if Path(p).exists()]
ExistingPaths(lines, disk) == SelectSeq(lines, LAMBDA e : e \in disk)

\* for uid in lines: p = uid_to_path.get(uid); if p and Path(p).exists(): ...
RECURSIVE ResolvedPaths(_, _, _)
ResolvedPaths(lines, resolved, disk) ==
    IF lines = <<>> THEN <<>>
    ELSE LET uid == Head(lines)
             rest == ResolvedPaths(Tail(lines), resolved, disk)
         IN IF uid \in resolved /\ CachePath(uid) \in disk
            THEN <<CachePath(uid)>> \o rest
            ELSE rest

Raise(exc) == [exc |-> exc, value |-> <<>>]
Value(v) == [exc |-> "none", value |-> v]

EmptyListErrorAsNotFound == "FileNotFoundError"

\* raise ValueError(f"Empty object list: {path}")
EmptyListError == "ValueError"

\* load_objects(object_list) for an asset list src: whether the list file
\* exists, its raw lines, the files on disk and the uids the Objaverse
\* service resolves
load_objects(src) ==
    IF ~src.exists THEN Raise("FileNotFoundError")
    ELSE LET lines == NonBlank(src.raw)
         IN IF lines = <<>> THEN Raise(EmptyListError)
            ELSE LET valid == IF LooksLikePath(lines[1])
                              THEN ExistingPaths(lines, src.disk)
                              ELSE ResolvedPaths(lines, src.resolved, src.disk)
                 IN IF valid = <<>> THEN Raise("FileNotFoundError")
                    ELSE Value(valid)

\* the fixed candidate order of find_blender; the last one is shutil.which
NumCandidates == 4

RECURSIVE FirstExisting(_, _)
FirstExisting(cand, i) ==
    IF i > Len(cand) THEN 0
    ELSE IF cand[i] = "exists" THEN i
    ELSE FirstExisting(cand, i + 1)

FindBlenderTrustingOverride(b) ==
    IF b.override = "given"
    THEN [exc |-> "none", value |-> [kind |-> "override", idx |-> 0]]
    ELSE LET i == FirstExisting(b.cand, 1)
         IN IF i = 0 THEN [exc |-> "FileNotFoundError", value |-> <<>>]
            ELSE [exc |-> "none", value |-> [kind |-> "candidate", idx |-> i]]

\* find_blender(blender_path) for b: the override ("none" or "given"),
\* whether it exists, and for each candidate "exists", "missing" or "none"
find_blender(b) ==
    IF b.override = "given" /\ b.override_exists
    THEN Value([kind |-> "override", idx |-> 0])
    ELSE LET i == FirstExisting(b.cand, 1)
         IN IF i = 0 THEN Raise("FileNotFoundError")
            ELSE Value([kind |-> "candidate", idx |-> i])

NoBlender == [kind |-> "none", idx |-> 0]

AfterCtorSwallowing(exc) == "start"

\* run_task: generator = TaskGenerator(config); generator.generate_dataset()
AfterCtor(exc) == IF exc = "none" THEN "start" ELSE "ctor_raised"

\* ---- futures ----

NoResult == [task_id |-> <<>>, output_dir |-> <<>>, success |-> FALSE]
NoOutcome == [exit |-> "none", sentinel |-> FALSE]

\* ex.submit(_render_one, a): the worker's locals (task_id, attempt,
\* current_objs, success), the subprocess outcome behind success (last), why
\* the previous attempt was rejected (rejected), the number of
\* render_video_task calls so far (calls), the exception that ended the
\* worker (exc) and the dict it returned (result); the objects of the first
\* attempt (first_objs), the number of random draws so far (draws) and the
\* timeout given to the last subprocess.run (timeout)
NewFuture(task_id) ==
    [task_id |-> task_id, pc |-> "pending", attempt |-> 0, objs |-> <<>>,
     success |-> FALSE, last |-> NoOutcome, rejected |-> "none", calls |-> 0,
     exc |-> "none", result |-> NoResult, first_objs |-> <<>>, draws |-> 0,
     timeout |-> 0]

Futures == 1..Len(fut)
Running == { f \in Futures : fut[f].pc \in {"clean", "invoke", "validate"} }
Finished == { f \in Futures : fut[f].pc \in {"returned", "raised"} }
Pending == { f \in Futures : fut[f].pc = "pending" }

PoolSizeOfJobs == config.num_samples

\* workers = min(self.config.workers, n)
PoolSize == Min(config.workers, config.num_samples)

Out(f) == OutDir(fut[f].task_id)

\* the step after the loop header is evaluated with the given attempt number
EnterLoop(w, attempt) ==
    IF LoopContinues(attempt, config.max_retries)
    THEN [w EXCEPT !.attempt = attempt, !.pc = "clean"]
    ELSE [w EXCEPT !.attempt = attempt, !.pc = "returned",
                   !.success = FALSE, !.last = NoOutcome, !.objs = <<>>,
                   !.first_objs = <<>>, !.rejected = "none",
                   !.result = [task_id |-> w.task_id,
                               output_dir |-> OutDir(w.task_id),
                               success |-> FALSE]]

\* which check of the gate turned the attempt down
Rejection(success) == IF success THEN "artifact" ELSE "renderer_false"

Touch(dir, f) == [dir EXCEPT !.users = @ \cup {f}]

\* ---- run_task: TaskConfig(...), then TaskGenerator(config) ----

\* an asset list of m paths that all exist
GoodSource(m) ==
    [exists |-> TRUE, raw |-> [k \in 1..m |-> Entry("path", k)],
     disk |-> { Entry("path", k) : k \in 1..m }, resolved |-> {}]

\* the environments of a batch run: a usable one, one whose asset list
\* repeats its first line (load_objects keeps repeated lines), and one for
\* each way TaskGenerator.__init__ can fail
BlenderFound ==
    [override |-> "none", override_exists |-> FALSE,
     cand |-> <<"exists", "missing", "missing", "none">>]
BlenderMissing ==
    [override |-> "given", override_exists |-> FALSE,
     cand |-> <<"missing", "missing", "missing", "none">>]

EnvCases ==
    {"ok", "repeated_line", "no_blender", "no_list", "blank_list", "no_asset_on_disk"}

EnvOf(case, m) ==
    [blender |-> IF case = "no_blender" THEN BlenderMissing ELSE BlenderFound,
     source |->
        CASE case = "no_list" -> [GoodSource(m) EXCEPT !.exists = FALSE]
          [] case = "blank_list" -> [GoodSource(m) EXCEPT !.raw = <<BlankLine>>]
          [] case = "no_asset_on_disk" -> [GoodSource(m) EXCEPT !.disk = {}]
          [] case = "repeated_line" ->
                [GoodSource(m) EXCEPT !.raw = [k \in 1..m |-> Entry("path", 1)]]
          [] OTHER -> GoodSource(m)]

\* The configurations explored: batches of up to MaxN jobs of the first task
\* kind over a one-asset pool, and single jobs of every task kind over pools
\* of up to MaxAssets assets; no run can make more than MaxCalls renderer
\* calls.
Configs ==
    { c \in [num_samples : 0..MaxN, workers : 1..MaxW,
              max_retries : 0..MaxRetries, serializable : BOOLEAN,
              assets : 1..MaxAssets, kind : TaskKinds, envcase : EnvCases] :
        /\ c.num_samples <= 1 \/ (c.assets = 1 /\ c.kind = TASK_NAMES[1])
        /\ c.num_samples * c.max_retries <= MaxCalls }

ConfigOf(c, size) ==
    [domain |-> c.kind, image_size |-> size, num_samples |-> c.num_samples,
     workers |-> c.workers, max_retries |-> c.max_retries,
     serializable |-> c.serializable, timeout |-> DefaultTimeout]

NoCall == [state |-> "none", arg |-> NoResult, ret |-> <<>>]
NoRun == [pc |-> "none"]
NoMain == [pc |-> "none"]
NoSched == [pc |-> "none"]

\* everything generate_dataset works on, before it is called
Idle ==
    /\ pr = NoCall
    /\ bl = NoRun
    /\ cli = NoMain
    /\ sch = NoSched
    /\ ctor_exc = "none"
    /\ blender = NoBlender
    /\ objects = <<>>
    /\ pc_main = "init"
    /\ fut = <<>>
    /\ fs = <<>>
    /\ collected = {}
    /\ pairs = <<>>
    /\ ok = 0
    /\ fail = 0
    /\ log = <<>>

Init ==
    /\ \E c \in Configs :
          /\ config = ConfigOf(c, <<DefaultResolution, DefaultResolution>>)
          /\ env = EnvOf(c.envcase, c.assets)
    /\ Idle

\* TaskGenerator.__init__: find_blender, then load_objects; either may raise
Construct ==
    /\ pc_main = "init"
    /\ LET b == find_blender(env.blender)
           o == load_objects(env.source)
           exc == IF b.exc # "none" THEN b.exc ELSE o.exc
       IN /\ ctor_exc' = exc
          /\ blender' = IF exc = "none" THEN b.value ELSE blender
          /\ objects' = IF exc = "none" THEN o.value ELSE objects
          /\ pc_main' = AfterCtor(exc)
    /\ UNCHANGED <<env, config, fut, fs, collected, pairs, ok, fail, log>>
    /\ UNCHANGED callVars

\* ---- generate_dataset / _parallel_render ----

\* ProcessPoolExecutor(max_workers=workers) raises ValueError for workers <= 0
OpenPool ==
    /\ pc_main = "start"
    /\ pc_main' = IF PoolSize <= 0 THEN "raised"
                  ELSE IF Len(ArgsList(config.num_samples)) = 0 THEN "collecting"
                  ELSE "submitting"
    /\ UNCHANGED ctorVars
    /\ UNCHANGED callVars
    /\ UNCHANGED <<config, objects, fut, fs, collected, pairs, ok, fail, log>>

\* futs = {ex.submit(_render_one, a): a[0] for a in args_list}, one at a time
Submit ==
    /\ pc_main = "submitting"
    /\ LET args == ArgsList(config.num_samples)
           k == Len(fut) + 1
       IN /\ k <= Len(args)
          /\ fut' = Append(fut, NewFuture(args[k]))
          /\ pc_main' = IF k = Len(args) THEN "collecting" ELSE "submitting"
    /\ UNCHANGED ctorVars
    /\ UNCHANGED callVars
    /\ UNCHANGED <<config, objects, fs, collected, pairs, ok, fail, log>>

\* ---- a pool worker runs _render_one(args) ----

\* The pool hands out work in submission order to a free worker; _render_one
\* creates its directory, draws the first object and enters render_with_retry.
Start(f) ==
    /\ pc_main \in {"submitting", "collecting", "unwinding"}
    /\ f \in Pending
    /\ \A g \in Pending : f <= g
    /\ Cardinality(Running) < PoolSize
    /\ \E objs \in InitialDraw(config.domain, objects) :
          /\ fut' = [fut EXCEPT ![f] =
                       EnterLoop([@ EXCEPT !.objs = objs, !.first_objs = objs,
                                           !.draws = 1], 0)]
          /\ objects' = PoolAfterDraw(objects, objs)
    /\ fs' = IF Out(f) \in DOMAIN fs THEN fs ELSE (Out(f) :> EmptyDir) @@ fs
    /\ UNCHANGED ctorVars
    /\ UNCHANGED callVars
    /\ UNCHANGED <<config, pc_main, collected, pairs, ok, fail, log>>

\* for f in out.glob("*"): f.unlink()
Clean(f) ==
    /\ f \in Futures
    /\ fut[f].pc = "clean"
    /\ fs' = [fs EXCEPT ![Out(f)] = Touch(CleanedDir(@), f)]
    /\ fut' = [fut EXCEPT ![f].pc = "invoke", ![f].rejected = "none"]
    /\ UNCHANGED ctorVars
    /\ UNCHANGED callVars
    /\ UNCHANGED <<config, objects, pc_main, collected, pairs, ok, fail, log>>

\* f.unlink() raises OSError on an entry it cannot remove; nothing in
\* render_with_retry or _render_one catches it
CleanRaises(f) ==
    /\ f \in Futures
    /\ fut[f].pc = "clean"
    /\ fs[Out(f)].files # {}
    /\ fs' = [fs EXCEPT ![Out(f)] = Touch(@, f)]
    /\ fut' = [fut EXCEPT ![f].pc = "raised", ![f].exc = "OSError"]
    /\ UNCHANGED ctorVars
    /\ UNCHANGED callVars
    /\ UNCHANGED <<config, objects, pc_main, collected, pairs, ok, fail, log>>

TimeoutOfWhatIsLeft(timeout, attempt) == timeout \div (attempt + 1)

\* the timeout argument render_with_retry passes on in the given attempt, and
\* render_video_task hands to subprocess.run
TimeoutGiven(timeout, attempt) == timeout

\* success = render_video_task(blender_path, task_config, current_objs, str(out), timeout)
Invoke(f) ==
    /\ f \in Futures
    /\ fut[f].pc = "invoke"
    /\ \E o \in SubprocessOutcomes :
          LET r == render_video_task(config.serializable, o)
          IN IF r.raised
             THEN /\ fut' = [fut EXCEPT ![f].pc = "raised", ![f].exc = "TypeError",
                                        ![f].calls = @ + 1]
                  /\ fs' = fs
             ELSE /\ fut' = [fut EXCEPT ![f].pc = "validate", ![f].success = r.ret,
                                        ![f].last = [exit |-> o.exit, sentinel |-> o.sentinel],
                                        ![f].calls = @ + 1,
                                        ![f].timeout =
                                            TimeoutGiven(config.timeout, fut[f].attempt)]
                  /\ fs' = [fs EXCEPT ![Out(f)] =
                                     Touch(Stamp(@, o, fut[f].calls + 1), f)]
    /\ UNCHANGED ctorVars
    /\ UNCHANGED callVars
    /\ UNCHANGED <<config, objects, pc_main, collected, pairs, ok, fail, log>>

AcceptedButGoesOn(w, out) == EnterLoop(w, w.attempt + 1)

\* return True of render_with_retry, and the dict _render_one builds from it
Accepted(w, out) ==
    [w EXCEPT !.pc = "returned", !.last = NoOutcome, !.objs = <<>>,
              !.first_objs = <<>>, !.success = FALSE,
              !.result = [task_id |-> w.task_id, output_dir |-> out,
                          success |-> TRUE]]

\* the validation gate, and on failure the redraw and the next loop header
Validate(f) ==
    /\ f \in Futures
    /\ fut[f].pc = "validate"
    /\ LET w == fut[f]
           out == Out(f)
       IN IF ArtifactValid(w.success, fs[out])
          THEN /\ fut' = [fut EXCEPT ![f] = Accepted(w, out)]
               /\ objects' = objects
          ELSE IF w.attempt < config.max_retries - 1 /\ Len(objects) > 0
          THEN \E objs \in SampleObjs(objects, Min(NumObjects(config.domain), Len(objects))) :
                  /\ fut' = [fut EXCEPT ![f] =
                               EnterLoop([w EXCEPT !.objs = objs, !.draws = @ + 1,
                                                   !.success = FALSE,
                                                   !.last = NoOutcome,
                                                   !.rejected = Rejection(w.success)],
                                         w.attempt + 1)]
                  /\ objects' = PoolAfterDraw(objects, objs)
          ELSE /\ fut' = [fut EXCEPT ![f] =
                            EnterLoop([w EXCEPT !.success = FALSE, !.last = NoOutcome,
                                                !.rejected = Rejection(w.success)],
                                      w.attempt + 1)]
               /\ objects' = objects
    /\ fs' = [fs EXCEPT ![Out(f)] = Touch(@, f)]
    /\ UNCHANGED ctorVars
    /\ UNCHANGED callVars
    /\ UNCHANGED <<config, pc_main, collected, pairs, ok, fail, log>>

\* ---- the collection loop ----

BlankOfDefaultSize(size) ==
    [kind |-> "new", size |-> <<DefaultResolution, DefaultResolution>>,
     color |-> <<0, 0, 0>>, path |-> <<>>]

\* Image.new("RGB", size, (0, 0, 0))
Blank(size) == [kind |-> "new", size |-> size, color |-> <<0, 0, 0>>, path |-> <<>>]

\* Image.open(path).convert("RGB"): whatever the file holds
Opened(path) == [kind |-> "file", size |-> <<>>, color |-> <<>>, path |-> path]

\* TaskPair.ground_truth_video of a pair constructed without one: the optional
\* reference is absent (core/schemas.py)
NoVideo == <<>>

\* Image.open finds both frames in the result's directory
FramesReadable(result) ==
    /\ result.output_dir \in DOMAIN fs
    /\ {"first_frame.png", "final_frame.png"} \subseteq fs[result.output_dir].files

ResultToPairWithFrameAsVideo(result) ==
    [task_id |-> result.task_id, domain |-> config.domain,
     first_image |-> Opened(<<result.output_dir, "first_frame.png">>),
     final_image |-> Opened(<<result.output_dir, "final_frame.png">>),
     ground_truth_video |-> <<result.output_dir, "first_frame.png">>]

\* _result_to_pair: placeholder pair for a failed result, otherwise the two
\* frames are opened and the video is referenced by path (the prompt, a
\* random.choice of PROMPTS, is left out)
_result_to_pair(result) ==
    IF ~result.success
    THEN [task_id |-> result.task_id, domain |-> config.domain,
          first_image |-> Blank(config.image_size),
          final_image |-> Blank(config.image_size),
          ground_truth_video |-> NoVideo]
    ELSE [task_id |-> result.task_id, domain |-> config.domain,
          first_image |-> Opened(<<result.output_dir, "first_frame.png">>),
          final_image |-> Opened(<<result.output_dir, "final_frame.png">>),
          ground_truth_video |-> <<result.output_dir, VideoFile>>]

\* self._result_to_pair(result), called on its own
ResultToPair ==
    /\ pr.state = "called"
    /\ pr' = IF pr.arg.success /\ ~FramesReadable(pr.arg)
             THEN [pr EXCEPT !.state = "raised"]
             ELSE [pr EXCEPT !.state = "returned", !.ret = _result_to_pair(pr.arg)]
    /\ UNCHANGED <<env, ctor_exc, blender, bl, cli, sch, config, objects, pc_main, fut,
                   fs, collected, pairs, ok, fail, log>>

PairsAfterInSubmissionOrder(ps, r) ==
    IF r.success /\ (ps = <<>> \/ ps[Len(ps)].task_id.num[TaskIdWidth]
                                    < r.task_id.num[TaskIdWidth])
    THEN Append(ps, _result_to_pair(r))
    ELSE ps

\* if r["success"]: pairs.append(self._result_to_pair(r))
PairsAfter(ps, r) == IF r.success THEN Append(ps, _result_to_pair(r)) ELSE ps

EmitsEveryTenOnly(done, n) == done % ProgressEvery = 0

\* if done % 10 == 0 or done == n
Emits(done, n) == done % ProgressEvery = 0 \/ done = n

OkAfterCountingAll(okc, r) == okc + 1

\* if r["success"]: ... ok += 1
OkAfter(okc, r) == IF r.success THEN okc + 1 ELSE okc

\* else: fail += 1
FailAfter(failc, r) == IF r.success THEN failc ELSE failc + 1

\* for fut in as_completed(futs): r = fut.result(); count; progress line
Collect(f) ==
    /\ pc_main = "collecting"
    /\ f \in Finished \ collected
    /\ fut[f].pc = "returned"
    /\ LET r == fut[f].result
       IN IF r.success /\ ~FramesReadable(r)
          THEN /\ pc_main' = "unwinding"
               /\ UNCHANGED <<collected, pairs, ok, fail, log>>
          ELSE LET ok2 == OkAfter(ok, r)
                   fail2 == FailAfter(fail, r)
                   done == ok2 + fail2
               IN /\ pairs' = PairsAfter(pairs, r)
                  /\ ok' = ok2
                  /\ fail' = fail2
                  /\ log' = IF Emits(done, config.num_samples)
                            THEN Append(log, [done |-> done, ok |-> ok2, fail |-> fail2])
                            ELSE log
                  /\ collected' = collected \cup {f}
                  /\ pc_main' = pc_main
    /\ UNCHANGED ctorVars
    /\ UNCHANGED callVars
    /\ UNCHANGED <<config, objects, fut, fs>>

\* fut.result() re-raises the exception of _render_one; the with block is left
CollectRaises(f) ==
    /\ pc_main = "collecting"
    /\ f \in Finished \ collected
    /\ fut[f].pc = "raised"
    /\ pc_main' = "unwinding"
    /\ UNCHANGED ctorVars
    /\ UNCHANGED callVars
    /\ UNCHANGED <<config, objects, fut, fs, collected, pairs, ok, fail, log>>

\* ProcessPoolExecutor.__exit__ waits for the remaining futures, then the
\* exception leaves generate_dataset
Unwind ==
    /\ pc_main = "unwinding"
    /\ Finished = Futures
    /\ pc_main' = "raised"
    /\ UNCHANGED ctorVars
    /\ UNCHANGED callVars
    /\ UNCHANGED <<config, objects, fut, fs, collected, pairs, ok, fail, log>>

\* the loop is exhausted: return pairs
Return ==
    /\ pc_main = "collecting"
    /\ collected = Futures
    /\ pc_main' = "returned"
    /\ UNCHANGED ctorVars
    /\ UNCHANGED callVars
    /\ UNCHANGED <<config, objects, fut, fs, collected, pairs, ok, fail, log>>

Next ==
    \/ Construct
    \/ OpenPool
    \/ Submit
    \/ \E f \in Futures : Start(f)
    \/ \E f \in Futures : Clean(f)
    \/ \E f \in Futures : CleanRaises(f)
    \/ \E f \in Futures : Invoke(f)
    \/ \E f \in Futures : Validate(f)
    \/ \E f \in Futures : Collect(f)
    \/ \E f \in Futures : CollectRaises(f)
    \/ Unwind
    \/ Return

Spec == Init /\ [][Next]_vars

\* Every worker process keeps running and the main process keeps running.
FairSpec == Init /\ [][Next]_vars /\ WF_vars(Next)

\* ---- the collection loop on its own ----

\* a job accepted at its first attempt
JobOk(i) ==
    Accepted([NewFuture(TaskId(i - 1)) EXCEPT !.calls = 1, !.draws = 1,
                                              !.timeout = config.timeout],
             OutDir(TaskId(i - 1)))

\* a job that used up both of its attempts
JobFailed(i) ==
    [NewFuture(TaskId(i - 1)) EXCEPT
        !.pc = "returned", !.attempt = 2, !.calls = 2, !.draws = 2,
        !.timeout = config.timeout,
        !.result = [task_id |-> TaskId(i - 1), output_dir |-> OutDir(TaskId(i - 1)),
                    success |-> FALSE]]

\* a job whose second attempt could not clear the directory
JobRaised(i, objs) ==
    [NewFuture(TaskId(i - 1)) EXCEPT
        !.pc = "raised", !.attempt = 1, !.calls = 1, !.draws = 2,
        !.timeout = config.timeout,
        !.objs = objs, !.first_objs = objs, !.rejected = "artifact",
        !.exc = "OSError"]

\* the directory each of them leaves
DirOk(i) ==
    [files |-> StageAll, vsize |-> min_video_size + 1, vby |-> 1, users |-> {i}]
DirFailed(i) == [EmptyDir EXCEPT !.users = {i}]
DirRaised(i) ==
    [files |-> StageAll, vsize |-> min_video_size, vby |-> 1, users |-> {i}]

\* All n jobs of a run over a one-asset pool have finished and none has been
\* collected: the first s succeeded, the others failed, and the last one may
\* have raised instead; as_completed yields them in any order.
InitCollect ==
    /\ \E n \in 1..MaxJobs, s \in 0..MaxOk, raises \in BOOLEAN :
          /\ s <= n
          /\ raises => s < n
          /\ config = [domain |-> TASK_NAMES[1],
                       image_size |-> <<DefaultResolution, DefaultResolution>>,
                       num_samples |-> n, workers |-> 1, max_retries |-> 2,
                       serializable |-> TRUE, timeout |-> DefaultTimeout]
          /\ env = EnvOf("ok", 1)
          /\ objects = load_objects(env.source).value
          /\ fut = [i \in 1..n |->
                      IF i <= s THEN JobOk(i)
                      ELSE IF raises /\ i = n THEN JobRaised(i, objects)
                      ELSE JobFailed(i)]
          /\ fs = [d \in { OutDir(TaskId(i - 1)) : i \in 1..n } |->
                     LET i == CHOOSE j \in 1..n : OutDir(TaskId(j - 1)) = d
                     IN IF i <= s THEN DirOk(i)
                        ELSE IF raises /\ i = n THEN DirRaised(i)
                        ELSE DirFailed(i)]
    /\ pr = NoCall
    /\ bl = NoRun
    /\ cli = NoMain
    /\ sch = NoSched
    /\ ctor_exc = "none"
    /\ blender = find_blender(env.blender).value
    /\ pc_main = "collecting"
    /\ collected = {}
    /\ pairs = <<>>
    /\ ok = 0
    /\ fail = 0
    /\ log = <<>>

NextCollect ==
    \/ \E f \in Futures : Collect(f)
    \/ \E f \in Futures : CollectRaises(f)
    \/ Unwind
    \/ Return

SpecCollect == InitCollect /\ [][NextCollect]_vars

\* ---- TaskGenerator.__init__ on its own ----

\* the lines an asset list can hold
Lines == {BlankLine} \cup { Entry(kind, k) : kind \in {"path", "uid"}, k \in 1..MaxIds }

\* asset lists of up to MaxLines lines, missing or present, over every set of
\* files on disk and every set of uids the Objaverse service resolves
Sources ==
    { [exists |-> e, raw |-> raw, disk |-> disk, resolved |-> resolved] :
        e \in BOOLEAN,
        raw \in UNION { [1..len -> Lines] : len \in 0..MaxLines },
        disk \in SUBSET ({ Entry("path", k) : k \in 1..MaxIds }
                            \cup { Entry("cache", k) : k \in 1..MaxIds }),
        resolved \in SUBSET { Entry("uid", k) : k \in 1..MaxIds } }

\* every override and every state of the candidates; only the last candidate,
\* shutil.which("blender"), can be None
BlenderEnvs ==
    { b \in [override : {"none", "given"}, override_exists : BOOLEAN,
              cand : [1..NumCandidates -> {"exists", "missing", "none"}]] :
        /\ \A k \in 1..(NumCandidates - 1) : b.cand[k] # "none"
        /\ b.override = "none" => ~b.override_exists }

InitLoad ==
    /\ \E c \in Configs :
          /\ c.num_samples = 1 /\ c.workers = 1 /\ c.max_retries = 1
          /\ c.serializable /\ c.assets = 1 /\ c.kind = TASK_NAMES[1]
          /\ c.envcase = "ok"
          /\ config = ConfigOf(c, <<DefaultResolution, DefaultResolution>>)
    /\ \/ \E b \in BlenderEnvs : env = [blender |-> b, source |-> GoodSource(1)]
       \/ \E src \in Sources : env = [blender |-> BlenderFound, source |-> src]
       \/ \E src \in Sources : env = [blender |-> BlenderMissing, source |-> src]
    /\ Idle

NextLoad == Construct

SpecLoad == InitLoad /\ [][NextLoad]_vars

\* ---- a single-job run in every environment of find_blender ----

\* one job over a usable one-asset list, with every override and every state
\* of the candidates
InitFind ==
    /\ \E c \in Configs :
          /\ c.num_samples = 1 /\ c.workers = 1 /\ c.assets = 1
          /\ c.kind = TASK_NAMES[1] /\ c.envcase = "ok"
          /\ config = ConfigOf(c, <<DefaultResolution, DefaultResolution>>)
    /\ \E b \in BlenderEnvs : env = [blender |-> b, source |-> GoodSource(1)]
    /\ Idle

SpecFind == InitFind /\ [][Next]_vars

\* ---- blender_render.py: one run of the renderer subprocess ----

\* What importing a path gives: a usable mesh; a file that is neither
\* .glb/.gltf nor .obj; a file without a mesh; a mesh of fewer than 4
\* vertices; a mesh whose largest extent is below 0.001.
ObjectStates == {"ok", "unsupported_format", "no_mesh", "few_verts", "degenerate"}

\* task_type of the task config: a task of the registry or anything else
TaskTypes == TaskKinds \cup {"unknown_kind"}

\* import_object: raises for an unsupported format, else the meshes selected
import_object(o) ==
    IF o = "unsupported_format" THEN Raise("ValueError")
    ELSE IF o = "no_mesh" THEN Value(<<>>)
    ELSE Value(<<o>>)

\* import_single_object(object_paths[0]): no objects for a file without a
\* mesh and for the two REJECT cases
import_single_object(paths) ==
    IF paths = <<>> THEN Raise("IndexError")
    ELSE LET meshes == import_object(paths[1])
         IN IF meshes.exc # "none" THEN meshes
            ELSE IF meshes.value = <<>> THEN Value(<<>>)
            ELSE IF paths[1] = "few_verts" THEN Value(<<>>)
            ELSE IF paths[1] = "degenerate" THEN Value(<<>>)
            ELSE meshes

\* import_and_place_objects: a path without a mesh is skipped, every other
\* imported path becomes a group, whatever its vertices or its size
RECURSIVE import_and_place_objects(_)
import_and_place_objects(paths) ==
    IF paths = <<>> THEN Value(<<>>)
    ELSE LET meshes == import_object(Head(paths))
         IN IF meshes.exc # "none" THEN meshes
            ELSE LET rest == import_and_place_objects(Tail(paths))
                 IN IF rest.exc # "none" THEN rest
                    ELSE IF meshes.value = <<>> THEN rest
                    ELSE Value(meshes.value \o rest.value)

\* the two import branches of main
ImportFor(task_type, paths) ==
    IF task_type \in {"shape_extrapolation", "zoom_consistency"}
    THEN import_single_object(paths)
    ELSE import_and_place_objects(paths)

\* the animation branches of main
KnownAnimation(task_type) ==
    task_type \in {"shape_extrapolation", "occlusion_dynamics", "depth_parallax",
                   "zoom_consistency"}

StepAfterSkippingMetadata(pc) ==
    CASE pc = "render" -> "keyframes"
      [] pc = "keyframes" -> "sentinel"
      [] pc = "metadata" -> "sentinel"
      [] OTHER -> "exited"

\* the tail of main: render_video, save_keyframes, metadata.json, the sentinel
StepAfter(pc) ==
    CASE pc = "render" -> "keyframes"
      [] pc = "keyframes" -> "metadata"
      [] pc = "metadata" -> "sentinel"
      [] OTHER -> "exited"

\* what each step of the tail writes into output_dir
Writes(pc) ==
    CASE pc = "render" -> {VideoFile}
      [] pc = "keyframes" -> {"first_frame.png", "final_frame.png"}
      [] pc = "metadata" -> {"metadata.json"}
      [] OTHER -> {}

\* sys.exit(1) after a printed line
ExitWith(line) ==
    [bl EXCEPT !.pc = "exited", !.exit = "nonzero", !.stdout = Append(@, line)]

\* An exception nothing in the script catches: the traceback goes to stderr
\* and the exit code is Blender's own (the command line has no
\* --python-exit-code), so either code is possible.
Uncaught(exc, code) == [bl EXCEPT !.pc = "exited", !.exit = code, !.exc = exc]

\* main, from the import to the first branch on its result
BlImport ==
    /\ bl.pc = "import"
    /\ LET r == ImportFor(bl.task_type, bl.object_paths)
       IN IF r.exc # "none"
          THEN \E code \in {"zero", "nonzero"} : bl' = Uncaught(r.exc, code)
          ELSE IF r.value = <<>>
          THEN bl' = ExitWith("IMPORT_FAILED")
          ELSE bl' = [bl EXCEPT !.pc = "animate", !.imported = r.value]
    /\ UNCHANGED <<env, ctor_exc, blender, pr, cli, sch, config, objects, pc_main, fut,
                   fs, collected, pairs, ok, fail, log>>

\* main: setup_camera and the animation of the task type
BlAnimate ==
    /\ bl.pc = "animate"
    /\ bl' = IF KnownAnimation(bl.task_type)
             THEN [bl EXCEPT !.pc = "render"]
             ELSE ExitWith("Unknown task type")
    /\ UNCHANGED <<env, ctor_exc, blender, pr, cli, sch, config, objects, pc_main, fut,
                   fs, collected, pairs, ok, fail, log>>

\* main: render_video, then save_keyframes, then metadata.json
BlWrite ==
    /\ bl.pc \in {"render", "keyframes", "metadata"}
    /\ bl' = [bl EXCEPT !.pc = StepAfter(bl.pc), !.files = @ \cup Writes(bl.pc)]
    /\ UNCHANGED <<env, ctor_exc, blender, pr, cli, sch, config, objects, pc_main, fut,
                   fs, collected, pairs, ok, fail, log>>

\* print("RENDER_SUCCESS"), and the script ends
BlPrintSuccess ==
    /\ bl.pc = "sentinel"
    /\ bl' = [bl EXCEPT !.pc = "exited", !.exit = "zero",
                        !.stdout = Append(@, "RENDER_SUCCESS")]
    /\ UNCHANGED <<env, ctor_exc, blender, pr, cli, sch, config, objects, pc_main, fut,
                   fs, collected, pairs, ok, fail, log>>

\* subprocess.run(..., timeout=timeout) kills the run wherever it is
BlTimeout ==
    /\ bl.pc \notin {"none", "exited"}
    /\ bl' = [bl EXCEPT !.pc = "exited", !.exit = "timeout"]
    /\ UNCHANGED <<env, ctor_exc, blender, pr, cli, sch, config, objects, pc_main, fut,
                   fs, collected, pairs, ok, fail, log>>

\* a run for every task type and every list of up to MaxPaths object paths
InitBlender ==
    /\ \E task_type \in TaskTypes,
          paths \in UNION { [1..len -> ObjectStates] : len \in 0..MaxPaths } :
          bl = [pc |-> "import", task_type |-> task_type, object_paths |-> paths,
                imported |-> <<>>, stdout |-> <<>>, files |-> {}, exit |-> "none",
                exc |-> "none"]
    /\ config = [domain |-> TASK_NAMES[1],
                 image_size |-> <<DefaultResolution, DefaultResolution>>,
                 num_samples |-> 1, workers |-> 1, max_retries |-> 1,
                 serializable |-> TRUE, timeout |-> DefaultTimeout]
    /\ env = EnvOf("ok", 1)
    /\ pr = NoCall
    /\ cli = NoMain
    /\ sch = NoSched
    /\ ctor_exc = "none"
    /\ blender = find_blender(env.blender).value
    /\ objects = load_objects(env.source).value
    /\ pc_main = "start"
    /\ fut = <<>>
    /\ fs = <<>>
    /\ collected = {}
    /\ pairs = <<>>
    /\ ok = 0
    /\ fail = 0
    /\ log = <<>>

NextBlender ==
    \/ BlImport
    \/ BlAnimate
    \/ BlWrite
    \/ BlPrintSuccess
    \/ BlTimeout

SpecBlender == InitBlender /\ [][NextBlender]_vars

\* ---- examples/generate.py: main ----

PerTaskRoundedUp(num_samples, kinds) == (num_samples + kinds - 1) \div kinds

\* per_task = args.num_samples // len(TASK_NAMES)
PerTask(num_samples, kinds) == num_samples \div kinds

\* How run_task(name, args) can end for args.num_samples = n: it returns
\* len(tasks), or an exception of the constructor or of generate_dataset
\* leaves it; with min(workers, n) <= 0 the pool cannot be opened and only
\* the exception is left.
RunTaskOutcomes(n, workers) ==
    IF Min(workers, n) <= 0 THEN {"raised"} ELSE {"returned", "raised"}

\* if args.task == "all": per_task = ...; else: run_task(args.task, args)
CliDispatch ==
    /\ cli.pc = "start"
    /\ cli' = IF cli.task = "all"
              THEN [cli EXCEPT !.pc = "loop",
                               !.per_task = PerTask(cli.num_samples, Len(TASK_NAMES))]
              ELSE [cli EXCEPT !.pc = "single"]
    /\ UNCHANGED <<env, ctor_exc, blender, pr, bl, sch, config, objects, pc_main, fut,
                   fs, collected, pairs, ok, fail, log>>

\* for name in TASK_NAMES: args.num_samples = per_task; total += run_task(name, args)
CliRunNext ==
    /\ cli.pc = "loop"
    /\ \E out \in RunTaskOutcomes(cli.per_task, cli.workers) :
          LET name == TASK_NAMES[cli.next]
              call == [task |-> name, num_samples |-> cli.per_task]
          IN cli' = [cli EXCEPT !.runs = Append(@, call),
                                !.num_samples = cli.per_task,
                                !.next = @ + 1,
                                !.pc = IF out = "raised" THEN "raised"
                                       ELSE IF cli.next = Len(TASK_NAMES) THEN "done"
                                       ELSE "loop"]
    /\ UNCHANGED <<env, ctor_exc, blender, pr, bl, sch, config, objects, pc_main, fut,
                   fs, collected, pairs, ok, fail, log>>

\* run_task(args.task, args)
CliRunSingle ==
    /\ cli.pc = "single"
    /\ \E out \in RunTaskOutcomes(cli.num_samples, cli.workers) :
          cli' = [cli EXCEPT
                    !.runs = Append(@, [task |-> cli.task,
                                        num_samples |-> cli.num_samples]),
                    !.pc = IF out = "raised" THEN "raised" ELSE "done"]
    /\ UNCHANGED <<env, ctor_exc, blender, pr, bl, sch, config, objects, pc_main, fut,
                   fs, collected, pairs, ok, fail, log>>

\* main is started with --task and --num-samples
InitCli ==
    /\ \E task \in TaskKinds \cup {"all"}, n \in 0..MaxSamples :
          cli = [pc |-> "start", task |-> task, requested |-> n, num_samples |-> n,
                 workers |-> DefaultWorkers, per_task |-> 0, next |-> 1,
                 runs |-> <<>>]
    /\ config = [domain |-> TASK_NAMES[1],
                 image_size |-> <<DefaultResolution, DefaultResolution>>,
                 num_samples |-> 1, workers |-> 1, max_retries |-> 1,
                 serializable |-> TRUE, timeout |-> DefaultTimeout]
    /\ env = EnvOf("ok", 1)
    /\ pr = NoCall
    /\ bl = NoRun
    /\ sch = NoSched
    /\ ctor_exc = "none"
    /\ blender = NoBlender
    /\ objects = <<>>
    /\ pc_main = "init"
    /\ fut = <<>>
    /\ fs = <<>>
    /\ collected = {}
    /\ pairs = <<>>
    /\ ok = 0
    /\ fail = 0
    /\ log = <<>>

NextCli ==
    \/ CliDispatch
    \/ CliRunNext
    \/ CliRunSingle

SpecCli == InitCli /\ [][NextCli]_vars

\* ---- the four tasks' generate_dataset side by side ----

\* a scheduler before generate_dataset is called: its position, n, the pool
\* size, the task ids submitted, the jobs collected, and what the loop keeps
NotStarted ==
    [pc |-> "start", n |-> 0, workers |-> 0, futs |-> <<>>, collected |-> {},
     pairs |-> <<>>, ok |-> 0, fail |-> 0, log |-> <<>>]

\* shape_extrapolation.py generate_dataset, _parallel_render: n, workers,
\* args_list, the pool and the submissions
generate_dataset_shape_extrapolation(cfg) ==
    LET n == cfg.num_samples
        workers == Min(cfg.workers, n)
        args_list == [k \in 1..n |->
                        [domain |-> cfg.domain,
                         num |-> ZeroPad(Digits(k - 1), TaskIdWidth)]]
    IN IF workers <= 0
       THEN [NotStarted EXCEPT !.pc = "raised", !.n = n, !.workers = workers]
       ELSE [NotStarted EXCEPT !.pc = "collecting", !.n = n, !.workers = workers,
                               !.futs = args_list]

\* occlusion_dynamics.py generate_dataset: n, workers, args_list, the pool and the submissions
generate_dataset_occlusion_dynamics(cfg) ==
    LET n == cfg.num_samples
        workers == Min(cfg.workers, n)
        args_list == [k \in 1..n |->
                        [domain |-> cfg.domain,
                         num |-> ZeroPad(Digits(k - 1), TaskIdWidth)]]
    IN IF workers <= 0
       THEN [NotStarted EXCEPT !.pc = "raised", !.n = n, !.workers = workers]
       ELSE [NotStarted EXCEPT !.pc = "collecting", !.n = n, !.workers = workers,
                               !.futs = args_list]

\* depth_parallax.py generate_dataset: n, workers, args_list, the pool and the submissions
generate_dataset_depth_parallax(cfg) ==
    LET n == cfg.num_samples
        workers == Min(cfg.workers, n)
        args_list == [k \in 1..n |->
                        [domain |-> cfg.domain,
                         num |-> ZeroPad(Digits(k - 1), TaskIdWidth)]]
    IN IF workers <= 0
       THEN [NotStarted EXCEPT !.pc = "raised", !.n = n, !.workers = workers]
       ELSE [NotStarted EXCEPT !.pc = "collecting", !.n = n, !.workers = workers,
                               !.futs = args_list]

\* zoom_consistency.py generate_dataset: n, workers, args_list, the pool and the submissions
generate_dataset_zoom_consistency(cfg) ==
    LET n == cfg.num_samples
        workers == Min(cfg.workers, n)
        args_list == [k \in 1..n |->
                        [domain |-> cfg.domain,
                         num |-> ZeroPad(Digits(k - 1), TaskIdWidth)]]
    IN IF workers <= 0
       THEN [NotStarted EXCEPT !.pc = "raised", !.n = n, !.workers = workers]
       ELSE [NotStarted EXCEPT !.pc = "collecting", !.n = n, !.workers = workers,
                               !.futs = args_list]

\* shape_extrapolation.py _parallel_render: one turn of the loop over as_completed(futs), for job j
as_completed_shape_extrapolation(st, j, outcome) ==
    IF st.pc # "collecting" THEN st
    ELSE IF outcome = "raised" THEN [st EXCEPT !.pc = "raised"]
         ELSE LET r == [success |-> outcome = "ok"]
                  ok2 == OkAfter(st.ok, r)
                  fail2 == FailAfter(st.fail, r)
                  done == ok2 + fail2
              IN [st EXCEPT
                    !.collected = @ \cup {j},
                    !.pairs = IF r.success THEN Append(@, st.futs[j]) ELSE @,
                    !.ok = ok2,
                    !.fail = fail2,
                    !.log = IF Emits(done, st.n)
                            THEN Append(@, [done |-> done, ok |-> ok2, fail |-> fail2])
                            ELSE @]

\* occlusion_dynamics.py generate_dataset: one turn of the loop over as_completed(futs), for job j
as_completed_occlusion_dynamics(st, j, outcome) ==
    IF st.pc # "collecting" THEN st
    ELSE IF outcome = "raised" THEN [st EXCEPT !.pc = "raised"]
         ELSE LET success == outcome = "ok"
                  ok2 == IF success THEN st.ok + 1 ELSE st.ok
                  fail2 == IF success THEN st.fail ELSE st.fail + 1
                  done == ok2 + fail2
              IN [st EXCEPT
                    !.collected = @ \cup {j},
                    !.pairs = IF success THEN Append(@, st.futs[j]) ELSE @,
                    !.ok = ok2,
                    !.fail = fail2,
                    !.log = IF done % ProgressEvery = 0 \/ done = st.n
                            THEN Append(@, [done |-> done, ok |-> ok2, fail |-> fail2])
                            ELSE @]

DepthParallaxProgressEveryTenOnly(st, j, outcome) ==
    IF st.pc # "collecting" THEN st
    ELSE IF outcome = "raised" THEN [st EXCEPT !.pc = "raised"]
         ELSE LET success == outcome = "ok"
                  ok2 == IF success THEN st.ok + 1 ELSE st.ok
                  fail2 == IF success THEN st.fail ELSE st.fail + 1
                  done == ok2 + fail2
              IN [st EXCEPT
                    !.collected = @ \cup {j},
                    !.pairs = IF success THEN Append(@, st.futs[j]) ELSE @,
                    !.ok = ok2,
                    !.fail = fail2,
                    !.log = IF done % ProgressEvery = 0
                            THEN Append(@, [done |-> done, ok |-> ok2, fail |-> fail2])
                            ELSE @]

\* depth_parallax.py generate_dataset: one turn of the loop over as_completed(futs), for job j
as_completed_depth_parallax(st, j, outcome) ==
    IF st.pc # "collecting" THEN st
    ELSE IF outcome = "raised" THEN [st EXCEPT !.pc = "raised"]
         ELSE LET success == outcome = "ok"
                  ok2 == IF success THEN st.ok + 1 ELSE st.ok
                  fail2 == IF success THEN st.fail ELSE st.fail + 1
                  done == ok2 + fail2
              IN [st EXCEPT
                    !.collected = @ \cup {j},
                    !.pairs = IF success THEN Append(@, st.futs[j]) ELSE @,
                    !.ok = ok2,
                    !.fail = fail2,
                    !.log = IF done % ProgressEvery = 0 \/ done = st.n
                            THEN Append(@, [done |-> done, ok |-> ok2, fail |-> fail2])
                            ELSE @]

\* zoom_consistency.py generate_dataset: one turn of the loop over as_completed(futs), for job j
as_completed_zoom_consistency(st, j, outcome) ==
    IF st.pc # "collecting" THEN st
    ELSE IF outcome = "raised" THEN [st EXCEPT !.pc = "raised"]
         ELSE LET success == outcome = "ok"
                  ok2 == IF success THEN st.ok + 1 ELSE st.ok
                  fail2 == IF success THEN st.fail ELSE st.fail + 1
                  done == ok2 + fail2
              IN [st EXCEPT
                    !.collected = @ \cup {j},
                    !.pairs = IF success THEN Append(@, st.futs[j]) ELSE @,
                    !.ok = ok2,
                    !.fail = fail2,
                    !.log = IF done % ProgressEvery = 0 \/ done = st.n
                            THEN Append(@, [done |-> done, ok |-> ok2, fail |-> fail2])
                            ELSE @]

\* TASK_REGISTRY[name].TaskGenerator(config).generate_dataset()
GenerateDatasetOf(kind, cfg) ==
    CASE kind = "shape_extrapolation" -> generate_dataset_shape_extrapolation(cfg)
      [] kind = "occlusion_dynamics" -> generate_dataset_occlusion_dynamics(cfg)
      [] kind = "depth_parallax" -> generate_dataset_depth_parallax(cfg)
      [] kind = "zoom_consistency" -> generate_dataset_zoom_consistency(cfg)

AsCompletedOf(kind, st, j, outcome) ==
    CASE kind = "shape_extrapolation" -> as_completed_shape_extrapolation(st, j, outcome)
      [] kind = "occlusion_dynamics" -> as_completed_occlusion_dynamics(st, j, outcome)
      [] kind = "depth_parallax" -> as_completed_depth_parallax(st, j, outcome)
      [] kind = "zoom_consistency" -> as_completed_zoom_consistency(st, j, outcome)

\* the loop of a scheduler is exhausted: return pairs
ReturnOf(st) ==
    IF st.pc = "collecting" /\ st.collected = DOMAIN st.futs
    THEN [st EXCEPT !.pc = "returned"]
    ELSE st

\* every task's generator is given the same num_samples and workers
SchedOpen ==
    /\ sch.pc = "start"
    /\ sch' = [sch EXCEPT
                 !.pc = "open",
                 !.st = [kind \in TaskKinds |->
                           GenerateDatasetOf(kind, [domain |-> kind,
                                                    num_samples |-> sch.n,
                                                    workers |-> sch.workers])]]
    /\ UNCHANGED <<env, ctor_exc, blender, pr, bl, cli, config, objects, pc_main, fut,
                   fs, collected, pairs, ok, fail, log>>

\* job j completes next in every pool, with the same outcome in each
SchedCollect(j) ==
    /\ sch.pc = "open"
    /\ j \in (1..sch.n) \ sch.yielded
    /\ \E kind \in TaskKinds : sch.st[kind].pc = "collecting"
    /\ sch' = [sch EXCEPT
                 !.yielded = @ \cup {j},
                 !.st = [kind \in TaskKinds |->
                           AsCompletedOf(kind, sch.st[kind], j, sch.outcome[j])]]
    /\ UNCHANGED <<env, ctor_exc, blender, pr, bl, cli, config, objects, pc_main, fut,
                   fs, collected, pairs, ok, fail, log>>

\* every job has been yielded
SchedReturn ==
    /\ sch.pc = "open"
    /\ sch.yielded = 1..sch.n
    /\ sch' = [sch EXCEPT
                 !.pc = "closed",
                 !.st = [kind \in TaskKinds |-> ReturnOf(sch.st[kind])]]
    /\ UNCHANGED <<env, ctor_exc, blender, pr, bl, cli, config, objects, pc_main, fut,
                   fs, collected, pairs, ok, fail, log>>

\* A batch of n jobs and a worker bound: the first s jobs succeed, the others
\* fail, and the last one may raise instead; they complete in any order.
InitSched ==
    /\ \E n \in 0..MaxJobs, w \in 1..MaxW, s \in 0..MaxOk, raises \in BOOLEAN :
          /\ s <= n
          /\ raises => s < n
          /\ sch = [pc |-> "start", n |-> n, workers |-> w, yielded |-> {},
                    outcome |-> [i \in 1..n |->
                                   IF i <= s THEN "ok"
                                   ELSE IF raises /\ i = n THEN "raised"
                                   ELSE "failed"],
                    st |-> [kind \in TaskKinds |-> NotStarted]]
    /\ config = [domain |-> TASK_NAMES[1],
                 image_size |-> <<DefaultResolution, DefaultResolution>>,
                 num_samples |-> 1, workers |-> 1, max_retries |-> 1,
                 serializable |-> TRUE, timeout |-> DefaultTimeout]
    /\ env = EnvOf("ok", 1)
    /\ pr = NoCall
    /\ bl = NoRun
    /\ cli = NoMain
    /\ ctor_exc = "none"
    /\ blender = NoBlender
    /\ objects = <<>>
    /\ pc_main = "init"
    /\ fut = <<>>
    /\ fs = <<>>
    /\ collected = {}
    /\ pairs = <<>>
    /\ ok = 0
    /\ fail = 0
    /\ log = <<>>

NextSched ==
    \/ SchedOpen
    \/ \E j \in 1..MaxJobs : SchedCollect(j)
    \/ SchedReturn

SpecSched == InitSched /\ [][NextSched]_vars

\* ---- _result_to_pair on its own ----

ImageSizes == { <<w, h>> : w, h \in {DefaultResolution, 512} }

DirContents == {StageNone, StageVideo, StageAll}

\* a result dict of job 0 or 1, a configuration, and the result's directory
\* either missing or holding some stage of a render
InitPair ==
    /\ \E kind \in TaskKinds, size \in ImageSizes :
          config = [domain |-> kind, image_size |-> size, num_samples |-> 1,
                    workers |-> 1, max_retries |-> 1, serializable |-> TRUE,
                    timeout |-> DefaultTimeout]
    /\ env = EnvOf("ok", 1)
    /\ \E i \in 0..1, success \in BOOLEAN :
          pr = [state |-> "called", ret |-> <<>>,
                arg |-> [task_id |-> TaskId(i), output_dir |-> OutDir(TaskId(i)),
                         success |-> success]]
    /\ bl = NoRun
    /\ cli = NoMain
    /\ sch = NoSched
    /\ ctor_exc = "none"
    /\ blender = find_blender(env.blender).value
    /\ objects = load_objects(env.source).value
    /\ pc_main = "returned"
    /\ fut = <<>>
    /\ \/ fs = <<>>
       \/ \E files \in DirContents :
             fs = (pr.arg.output_dir :>
                     [EmptyDir EXCEPT !.files = files,
                                      !.vsize = IF VideoFile \in files
                                                THEN min_video_size + 1 ELSE 0])
    /\ collected = {}
    /\ pairs = <<>>
    /\ ok = 0
    /\ fail = 0
    /\ log = <<>>

NextPair == ResultToPair

SpecPair == InitPair /\ [][NextPair]_vars

TypeOK ==
    /\ config.num_samples \in Nat
    /\ pc_main \in {"init", "ctor_raised", "start", "submitting", "collecting",
                    "unwinding", "returned", "raised"}
    /\ collected \subseteq Futures
    /\ ok \in Nat /\ fail \in Nat

\* ---- helpers of the properties ----

N == config.num_samples
SubmittedIds == { TaskId(i) : i \in 0..(N - 1) }
FuturesOf(id) == { f \in Futures : fut[f].task_id = id }
PairIds == { pairs[k].task_id : k \in 1..Len(pairs) }
Ended == pc_main \in {"returned", "raised"}
FailedResult(f) == fut[f].pc = "returned" /\ ~fut[f].result.success
GoodArtifact(f) ==
    /\ fut[f].success
    /\ "ground_truth.mp4" \in fs[Out(f)].files
    /\ fs[Out(f)].vsize >= 50001

\* ---- C1 ----
\* C1: when generate_dataset has returned for N >= 1 jobs, the dataset holds
\* exactly one pair per submitted job_id, failed jobs included as placeholder
\* pairs, so the number of pairs is N.
C1_OnePairPerJob ==
    (pc_main = "returned" /\ N >= 1) =>
        /\ Len(pairs) = N
        /\ PairIds = SubmittedIds

\* ---- C2 ----
\* C2: for W <= N, a finished run of the scheduler has collected exactly N job
\* results, one for each submitted job_id, none twice and none missing.
C2_ExactlyNResults ==
    (Ended /\ N >= 1 /\ config.workers <= N) =>
        /\ ok + fail = N
        /\ Cardinality(collected) = N
        /\ \A id \in SubmittedIds : Cardinality(FuturesOf(id) \cap collected) = 1

\* ---- C3 ----
\* C3: no job ever calls render_video_task more than max_retries times.
C3_RetryBound ==
    \A f \in Futures : fut[f].calls <= config.max_retries

C3_Witness ==
    \E f \in Futures :
        /\ fut[f].pc = "returned"
        /\ config.max_retries >= 2
        /\ fut[f].calls = config.max_retries

\* ---- C4 ----
\* C4: the step that follows a renderer call reports success only if the call
\* returned true and ground_truth.mp4 exists with a size above min_video_size;
\* every other attempt, a true call with a missing or undersized artifact
\* included, is followed by the next attempt when attempts remain and by a
\* failed result when none remain.
C4_ValidationGate ==
    [][\A f \in Futures :
          (fut[f].pc = "validate" /\ fut'[f].pc # "validate") =>
              IF GoodArtifact(f)
              THEN fut'[f].pc = "returned" /\ fut'[f].result.success
              ELSE IF fut[f].attempt + 1 < config.max_retries
              THEN /\ fut'[f].pc = "clean"
                   /\ fut'[f].attempt = fut[f].attempt + 1
                   /\ fut'[f].calls = fut[f].calls
              ELSE fut'[f].pc = "returned" /\ ~fut'[f].result.success]_vars

\* a true renderer call was turned down for its artifact and the job is at
\* the start of its next attempt
C4_Witness ==
    \E f \in Futures :
        /\ fut[f].pc = "clean"
        /\ fut[f].attempt >= 1
        /\ fut[f].rejected = "artifact"
        /\ ("ground_truth.mp4" \notin fs[Out(f)].files \/ fs[Out(f)].vsize = 50000)

\* ---- C5 ----
\* C5: render_video_task returns true exactly when the subprocess exited with
\* code 0 and printed RENDER_SUCCESS, and in every other case, a failure to
\* serialize the arguments included, it returns false and raises nothing.
C5_BooleanOnly ==
    \A f \in Futures :
        /\ fut[f].exc # "TypeError"
        /\ fut[f].pc = "validate" =>
              (fut[f].success <=> (fut[f].last.exit = "zero" /\ fut[f].last.sentinel))

\* ---- C6 ----
\* C6: every call of generate_dataset with N >= 1 jobs eventually returns
\* with exactly one collected result for every submitted job.
C6_EventuallyReturns ==
    (pc_main = "start" /\ N >= 1)
        ~> (/\ pc_main = "returned"
            /\ \A id \in SubmittedIds : Cardinality(FuturesOf(id) \cap collected) = 1)

\* ---- C7 ----
\* C7: a failure inside one job, an exception of its worker function included,
\* never halts the batch: generate_dataset does not end with an exception and
\* the result of every sibling job is collected.
C7_FailureIsolation ==
    (Ended /\ N >= 1) =>
        /\ pc_main = "returned"
        /\ \A f \in Futures : fut[f].pc = "returned" => f \in collected

\* ---- C8 ----
\* C8: a job whose attempts all fail has made exactly max_retries renderer
\* calls, its last rejected attempt is followed by a plain return of false, its
\* result carries success = false with its own task_id and output directory,
\* and once it has returned nothing runs it again.
C8_Exhaustion ==
    /\ [](\A f \in Futures :
            FailedResult(f) =>
                /\ fut[f].calls = config.max_retries
                /\ fut[f].exc = "none"
                /\ fut[f].result.task_id = fut[f].task_id
                /\ fut[f].result.output_dir = OutDir(fut[f].task_id))
    /\ [][\A f \in Futures :
            /\ (/\ fut[f].pc = "validate"
                /\ fut'[f].pc # "validate"
                /\ ~GoodArtifact(f)
                /\ fut[f].attempt + 1 >= config.max_retries)
               => (fut'[f].pc = "returned" /\ ~fut'[f].result.success)
            /\ fut[f].pc = "returned" => fut'[f] = fut[f]]_vars

C8_Witness ==
    \E f \in Futures :
        /\ FailedResult(f)
        /\ f \in collected
        /\ config.max_retries >= 2
        /\ fut[f].calls = config.max_retries
        /\ pc_main = "returned"

\* ---- C9 ----
\* C9: each job_id is submitted to the pool exactly once in a run; a failed
\* result never leads to a second submission.
C9_SubmittedOnce ==
    /\ \A id \in SubmittedIds : Cardinality(FuturesOf(id)) <= 1
    /\ (pc_main \in {"collecting", "unwinding", "returned"}) =>
          /\ Len(fut) = N
          /\ \A id \in SubmittedIds : Cardinality(FuturesOf(id)) = 1

C9_Witness ==
    /\ pc_main = "returned"
    /\ N >= 2
    /\ \E f \in Futures : FailedResult(f) /\ f \in collected
    /\ Len(fut) = N

\* ---- C10 ----
\* C10: two distinct jobs of a run never have the same output directory, and
\* every directory is cleared, rendered into and validated by one job only.
C10_ExclusiveDirs ==
    /\ \A f, g \in Futures : f # g => Out(f) # Out(g)
    /\ \A d \in DOMAIN fs : Cardinality(fs[d].users) <= 1
    /\ \A d \in DOMAIN fs : \A f \in fs[d].users : d = OutDir(fut[f].task_id)

\* two jobs are in the middle of an attempt at the same time, each with files
\* in its directory
C10_Witness ==
    \E f, g \in Futures :
        /\ f # g
        /\ fut[f].pc = "validate" /\ fut[g].pc = "validate"
        /\ fs[Out(f)].files # {} /\ fs[Out(g)].files # {}
        /\ fs[Out(f)].users = {f} /\ fs[Out(g)].users = {g}

SetOf(seq) == { seq[x] : x \in DOMAIN seq }

\* a worker inside some attempt of its loop
InAttempt(f) == fut[f].pc \in {"clean", "invoke", "validate"}

\* C12: when the pool is larger than the object subset, the objects of every
\* attempt after the first differ, as a set, from the objects of attempt 1.
C12_DifferentSubset ==
    \A f \in Futures :
        (InAttempt(f) /\ fut[f].attempt >= 1 /\ Len(objects) > Len(fut[f].first_objs))
            => SetOf(fut[f].objs) # SetOf(fut[f].first_objs)

\* ---- C13 ----
\* C13: render_with_retry stops at the first valid attempt. The step that
\* validates a true renderer call with an artifact above min_video_size ends
\* the job with success and touches neither the call count, the draw count nor
\* the directory; a job that has returned success made exactly attempt + 1 <=
\* max_retries renderer calls and as many draws, and neither it nor its
\* directory changes afterwards.
C13_StopsAtFirstValid ==
    /\ [](\A f \in Futures :
            (fut[f].pc = "returned" /\ fut[f].result.success) =>
                /\ fut[f].calls = fut[f].attempt + 1
                /\ fut[f].calls <= config.max_retries
                /\ fut[f].draws = fut[f].calls
                /\ "ground_truth.mp4" \in fs[Out(f)].files
                /\ fs[Out(f)].vsize >= 50001)
    /\ [][\A f \in Futures :
            /\ (fut[f].pc = "validate" /\ fut'[f].pc # "validate" /\ GoodArtifact(f)) =>
                  /\ fut'[f].pc = "returned"
                  /\ fut'[f].result.success
                  /\ fut'[f].calls = fut[f].calls
                  /\ fut'[f].draws = fut[f].draws
                  /\ fs'[Out(f)] = fs[Out(f)]
            /\ (fut[f].pc = "returned" /\ fut[f].result.success) =>
                  /\ fut'[f] = fut[f]
                  /\ fs'[Out(f)] = fs[Out(f)]]_vars

\* a job accepted at its second attempt, after a first one that failed
C13_Witness ==
    \E f \in Futures :
        /\ fut[f].pc = "returned"
        /\ fut[f].result.success
        /\ fut[f].calls = 2
        /\ config.max_retries >= 2

\* ---- C14 ----
\* the constructor has run and find_blender had a binary to return, so that
\* the exception leaving the constructor, if any, is load_objects' own
LoadObjectsRan ==
    /\ pc_main # "init"
    /\ \/ env.blender.override = "given" /\ env.blender.override_exists
       \/ \E k \in DOMAIN env.blender.cand : env.blender.cand[k] = "exists"

SourceMissing == ~env.source.exists

NoNonBlankEntry ==
    /\ env.source.exists
    /\ \A k \in DOMAIN env.source.raw : env.source.raw[k] = BlankLine

\* the entries that resolve to an existing local file: read as paths when the
\* first non-blank entry is a path, as uids otherwise
UsableEntries ==
    LET raw == env.source.raw
        first == CHOOSE k \in DOMAIN raw :
                    raw[k] # BlankLine /\ \A j \in 1..(k - 1) : raw[j] = BlankLine
    IN { e \in SetOf(raw) \ {BlankLine} :
           IF raw[first].kind = "path"
           THEN e \in env.source.disk
           ELSE e \in env.source.resolved /\ Entry("cache", e.id) \in env.source.disk }

NoUsableEntry ==
    /\ env.source.exists
    /\ ~NoNonBlankEntry
    /\ UsableEntries = {}

\* C14 as stated: in each of the three cases load_objects fails with the same
\* not-found error and returns no list.
C14_SameNotFound ==
    (LoadObjectsRan /\ (SourceMissing \/ NoNonBlankEntry \/ NoUsableEntry)) =>
        /\ ctor_exc = "FileNotFoundError"
        /\ objects = <<>>

\* C14 as amended: in each of the three cases load_objects raises and returns
\* no list; the error is FileNotFoundError for a missing source and for a
\* source without a usable entry, and ValueError for a source without a
\* non-blank entry.
C14_LoadFailures ==
    LoadObjectsRan =>
        /\ SourceMissing => ctor_exc = "FileNotFoundError"
        /\ NoNonBlankEntry => ctor_exc = "ValueError"
        /\ NoUsableEntry => ctor_exc = "FileNotFoundError"
        /\ (SourceMissing \/ NoNonBlankEntry \/ NoUsableEntry) =>
              objects = <<>> /\ pc_main = "ctor_raised"

\* a list of blank lines only has been turned down
C14_Witness ==
    /\ LoadObjectsRan
    /\ NoNonBlankEntry
    /\ Len(env.source.raw) >= 1
    /\ ctor_exc = "ValueError"

\* ---- C15 ----
\* C15: once find_blender or load_objects has raised in the constructor, the
\* run is over: the exception stays, generate_dataset is never entered, no job
\* is ever submitted to the pool and no renderer call or output directory
\* ever exists.
C15_FatalBeforeScheduling ==
    /\ []((ctor_exc # "none") =>
            /\ pc_main = "ctor_raised"
            /\ fut = <<>>
            /\ fs = <<>>
            /\ collected = {}
            /\ pairs = <<>>)
    /\ [][(ctor_exc # "none") => (ctor_exc' = ctor_exc)]_vars

\* load_objects has turned down a blank asset list in a run asked for a job
C15_Witness ==
    /\ pc_main = "ctor_raised"
    /\ ctor_exc = "ValueError"
    /\ blender = NoBlender
    /\ N >= 1

\* ---- C16 ----
\* C16: in a run with N >= 1 jobs and worker bound W, at most min(W, N) jobs
\* are inside render_with_retry at any moment, and a worker's renderer call is
\* one blocking step: it starts from the job's invoke position only, counts
\* once, and has ended before the job does anything else.
C16_BoundedConcurrency ==
    /\ []((N >= 1) =>
            Cardinality({ f \in Futures : InAttempt(f) })
                <= (IF config.workers < N THEN config.workers ELSE N))
    /\ [][\A f \in Futures :
            (fut'[f].calls # fut[f].calls) =>
                /\ fut[f].pc = "invoke"
                /\ fut'[f].calls = fut[f].calls + 1
                /\ fut'[f].pc \in {"validate", "raised"}]_vars

\* the pool is full with one worker while a second job waits
C16_Witness ==
    /\ N = 2
    /\ config.workers = 1
    /\ \E f \in Futures : fut[f].pc = "invoke"
    /\ \E g \in Futures : fut[g].pc = "pending"

\* ---- C19 ----
\* C19: every attempt goes clear, invoke, validate in that order; when the
\* renderer is invoked the job's directory is empty; and the video a
\* validation accepts was written by the renderer call of that same attempt.
C19_AttemptOrder ==
    /\ [](\A f \in Futures :
            /\ (fut[f].pc = "invoke") => fs[Out(f)].files = {}
            /\ ((fut[f].pc = "validate" /\ GoodArtifact(f))
                \/ (fut[f].pc = "returned" /\ fut[f].result.success)) =>
                  /\ fs[Out(f)].vby = fut[f].attempt + 1
                  /\ fut[f].calls = fut[f].attempt + 1)
    /\ [][\A f \in Futures :
            (fut'[f].pc # fut[f].pc) =>
                CASE fut[f].pc = "pending" -> fut'[f].pc \in {"clean", "returned"}
                  [] fut[f].pc = "clean" -> fut'[f].pc \in {"invoke", "raised"}
                  [] fut[f].pc = "invoke" -> fut'[f].pc \in {"validate", "raised"}
                  [] fut[f].pc = "validate" -> fut'[f].pc \in {"clean", "returned"}
                  [] OTHER -> FALSE]_vars

\* the second attempt of a job is about to be accepted for the video its own
\* renderer call wrote
C19_Witness ==
    \E f \in Futures :
        /\ fut[f].pc = "validate"
        /\ fut[f].attempt = 1
        /\ GoodArtifact(f)
        /\ fs[Out(f)].vby = 2

Printed(line) == \E k \in DOMAIN bl.stdout : bl.stdout[k] = line

\* the import left main nothing to render: the one object of a single-object
\* task has no mesh or was rejected, or no path of a multi-object task has a mesh
ImportFailedOrRejected ==
    IF bl.task_type \in {"shape_extrapolation", "zoom_consistency"}
    THEN Len(bl.object_paths) >= 1
         /\ bl.object_paths[1] \in {"no_mesh", "few_verts", "degenerate"}
    ELSE \A k \in DOMAIN bl.object_paths : bl.object_paths[k] = "no_mesh"

UnknownTaskKind ==
    /\ bl.task_type \notin TaskKinds
    /\ \A k \in DOMAIN bl.object_paths : bl.object_paths[k] # "unsupported_format"
    /\ ~ImportFailedOrRejected

\* C17: RENDER_SUCCESS is on stdout only when ground_truth.mp4, both frames
\* and metadata.json have been written by the run; a run that ends because
\* the import failed or was rejected, or because the task kind is unknown,
\* exits nonzero; and no run that ends otherwise than through the last line of
\* main has printed the sentinel.
C17_SentinelLast ==
    /\ Printed("RENDER_SUCCESS") =>
          {"ground_truth.mp4", "first_frame.png", "final_frame.png", "metadata.json"}
              \subseteq bl.files
    /\ (bl.pc = "exited" /\ bl.exit # "timeout"
          /\ (ImportFailedOrRejected \/ UnknownTaskKind)) =>
          bl.exit = "nonzero" /\ ~Printed("RENDER_SUCCESS")
    /\ (bl.pc = "exited" /\ (bl.exit # "zero" \/ bl.exc # "none")) =>
          ~Printed("RENDER_SUCCESS")

\* a completed run, with all four files and the sentinel
C17_Witness ==
    /\ bl.pc = "exited"
    /\ Printed("RENDER_SUCCESS")
    /\ bl.exit = "zero"
    /\ "metadata.json" \in bl.files

\* ---- C18 ----
\* the object paths main hands to the import of the task type
UsedPaths ==
    IF bl.task_type \in {"shape_extrapolation", "zoom_consistency"}
    THEN { bl.object_paths[k] : k \in DOMAIN bl.object_paths \cap {1} }
    ELSE SetOf(bl.object_paths)

\* C18: a run of any task kind that meets an internal error (a used object
\* of unsupported format, without a mesh or of degenerate geometry, or an
\* unknown task kind) ends with a failure sentinel on stdout, a nonzero exit
\* code and no success sentinel.
C18_FailsOnInternalError ==
    (/\ bl.pc = "exited"
     /\ bl.exit # "timeout"
     /\ \/ bl.task_type \notin TaskKinds
        \/ UsedPaths \cap {"unsupported_format", "no_mesh", "few_verts", "degenerate"} # {})
        => /\ Printed("IMPORT_FAILED") \/ Printed("Unknown task type")
           /\ bl.exit = "nonzero"
           /\ ~Printed("RENDER_SUCCESS")

\* ---- C21 ----
\* C21: the collection loop appends a progress line exactly in the steps that
\* count a completion whose running count is a multiple of 10 or equals N;
\* the line reports that count with ok + fail = done <= N; no other step
\* prints one.
C21_ProgressSignal ==
    [][/\ (ok' + fail' # ok + fail) =>
            LET done == ok' + fail'
            IN /\ done = ok + fail + 1
               /\ done <= N
               /\ IF done % 10 = 0 \/ done = N
                  THEN /\ Len(log') = Len(log) + 1
                       /\ SubSeq(log', 1, Len(log)) = log
                       /\ log'[Len(log')].done = done
                       /\ log'[Len(log')].ok = ok'
                       /\ log'[Len(log')].fail = fail'
                  ELSE log' = log
       /\ (log' # log) => (ok' + fail' # ok + fail)]_vars

\* a line was printed at the tenth of eleven completions, and not at the ninth
C21_Witness ==
    /\ N = 11
    /\ ok + fail = 10
    /\ Len(log) = 1
    /\ log[1].done = 10

\* ---- C22 ----
SucceededJobs == { f \in Futures : fut[f].pc = "returned" /\ fut[f].result.success }
FailedJobs == { f \in Futures : fut[f].pc = "returned" /\ ~fut[f].result.success }
RaisedJobs == { f \in Futures : fut[f].pc = "raised" }

\* C22: what generate_dataset ends with is fixed by the outcomes of the jobs,
\* whatever the order in which as_completed yields them: it raises exactly
\* when some job raised, and otherwise the task_ids of the returned pairs are
\* those of the successful jobs, one pair each, ok is their number and fail
\* the number of the failed jobs.
C22_OrderIndependent ==
    /\ (pc_main = "returned") =>
          /\ RaisedJobs = {}
          /\ PairIds = { fut[f].task_id : f \in SucceededJobs }
          /\ Len(pairs) = Cardinality(SucceededJobs)
          /\ ok = Cardinality(SucceededJobs)
          /\ fail = Cardinality(FailedJobs)
    /\ (pc_main = "raised") => RaisedJobs # {}
    /\ (pc_main = "collecting" /\ collected = Futures) => RaisedJobs = {}

\* generate_dataset has returned the pair of the second job before the pair
\* of the first, with failed jobs around them
C22_Witness ==
    /\ pc_main = "returned"
    /\ N >= 4
    /\ Len(pairs) = 2
    /\ pairs[1].task_id = TaskId(1)
    /\ pairs[2].task_id = TaskId(0)

\* ---- C23 ----
\* what the asset list of the run resolves to: its non-blank lines found on
\* disk, in the order of the list (the lists of a batch run are lists of paths)
LoadedAssets ==
    SelectSeq(env.source.raw,
              LAMBDA e : e.kind = "path" /\ e \in env.source.disk)

\* C23: from the moment the constructor has returned, self.objects is the
\* list load_objects returned, members and order, in every state of every job
\* and interleaving, and no step changes it.
C23_AssetSetImmutable ==
    /\ [](pc_main \notin {"init", "ctor_raised"} =>
            /\ objects = LoadedAssets
            /\ objects # <<>>)
    /\ [][pc_main # "init" => objects' = objects]_vars

\* a job over a pool of two assets is in its second attempt, after a redraw
C23_Witness ==
    \E f \in Futures :
        /\ fut[f].pc = "invoke"
        /\ fut[f].draws = 2
        /\ Len(objects) = 2
        /\ objects[1] # objects[2]

\* ---- C24 ----
\* the list is read as paths when its first non-blank line is a path
PathMode ==
    LET raw == env.source.raw
        first == CHOOSE k \in DOMAIN raw :
                    raw[k] # BlankLine /\ \A j \in 1..(k - 1) : raw[j] = BlankLine
    IN raw[first].kind = "path"

\* the local file line k stands for, and whether it is there
FileOfLine(k) ==
    IF PathMode THEN env.source.raw[k]
    ELSE Entry("cache", env.source.raw[k].id)

UsableLine(k) ==
    /\ env.source.raw[k] # BlankLine
    /\ IF PathMode THEN env.source.raw[k] \in env.source.disk
       ELSE /\ env.source.raw[k] \in env.source.resolved
            /\ FileOfLine(k) \in env.source.disk

\* C24: for a list with a non-blank line, load_objects returns exactly when
\* some line is usable in the mode fixed by the first non-blank line; the
\* list returned is not empty, holds only files that exist, and holds the
\* files of the usable lines, one per line and in the order of the lines;
\* the other lines are left out without an error.
C24_LoadContract ==
    (LoadObjectsRan /\ env.source.exists /\ ~NoNonBlankEntry) =>
        LET usable == { k \in DOMAIN env.source.raw : UsableLine(k) }
        IN IF usable = {}
           THEN ctor_exc # "none"
           ELSE /\ ctor_exc = "none"
                /\ objects # <<>>
                /\ \A k \in DOMAIN objects : objects[k] \in env.source.disk
                /\ Len(objects) = Cardinality(usable)
                /\ \E pos \in [DOMAIN objects -> usable] :
                      /\ \A a, b \in DOMAIN objects : a < b => pos[a] < pos[b]
                      /\ \A a \in DOMAIN objects : objects[a] = FileOfLine(pos[a])

\* a list of two uids of which the first was not resolved: the second one's
\* file is returned alone
C24_Witness ==
    /\ LoadObjectsRan
    /\ ctor_exc = "none"
    /\ Len(env.source.raw) = 2
    /\ env.source.raw[1].kind = "uid"
    /\ env.source.raw[1] \notin env.source.resolved
    /\ objects = <<Entry("cache", env.source.raw[2].id)>>

\* ---- C25 ----
\* the pairs accumulated for a job
PairsOf(f) == { k \in DOMAIN pairs : pairs[k].task_id = fut[f].task_id }

\* C25: among the collected jobs, the successful ones and only they have a
\* pair with a video reference; the reference is ground_truth.mp4 in the
\* job's own output directory, where the file accepted by the validation
\* still is, larger than min_video_size; every pair belongs to a collected
\* job.
C25_VideoReference ==
    /\ \A f \in collected :
          /\ (PairsOf(f) # {}) <=> fut[f].result.success
          /\ \A k \in PairsOf(f) :
                LET dir == [work_dir |-> "work_dir", name |-> <<fut[f].task_id>>]
                IN /\ pairs[k].ground_truth_video = <<dir, "ground_truth.mp4">>
                   /\ fut[f].result.output_dir = dir
                   /\ "ground_truth.mp4" \in fs[dir].files
                   /\ fs[dir].vsize >= 50001
                   /\ fs[dir].users = {f}
    /\ \A k \in DOMAIN pairs : \E f \in collected : k \in PairsOf(f)

\* a successful and a failed job have both been collected
C25_Witness ==
    /\ Len(pairs) = 1
    /\ ok = 1
    /\ fail = 1
    /\ Cardinality(collected) = 2

\* ---- C26 ----
\* C26: every renderer call of a job, the first and each retry, runs
\* subprocess.run with the configured timeout, whatever the attempt number and
\* however the earlier attempts ended.
C26_TimeoutPerAttempt ==
    /\ [](\A f \in Futures :
            (fut[f].timeout # 0) => fut[f].timeout = config.timeout)
    /\ [][\A f \in Futures :
            (fut'[f].calls # fut[f].calls /\ fut'[f].pc = "validate") =>
                fut'[f].timeout = config.timeout]_vars

\* the second call of a job has run into its timeout
C26_Witness ==
    \E f \in Futures :
        /\ fut[f].pc = "validate"
        /\ fut[f].attempt = 1
        /\ fut[f].last.exit = "timeout"
        /\ fut[f].timeout = 600

\* ---- C27 ----
\* C27: in the "all" mode the k-th run_task call is for the k-th task of the
\* registry and asks for exactly floor(num_samples / 4) samples; a main that
\* ran to its end has made the four calls, so that 4 * floor(num_samples / 4)
\* samples were asked for in all, at most 3 fewer than num_samples and never
\* more.
C27_EvenSplit ==
    (cli.pc # "none" /\ cli.task = "all") =>
        LET n == cli.requested
            q == CHOOSE x \in 0..n : 4 * x <= n /\ n < 4 * (x + 1)
            asked == [k \in DOMAIN cli.runs |-> cli.runs[k].num_samples]
        IN /\ Len(cli.runs) <= 4
           /\ \A k \in DOMAIN cli.runs :
                 /\ cli.runs[k].num_samples = q
                 /\ cli.runs[k].task =
                       <<"shape_extrapolation", "occlusion_dynamics",
                         "depth_parallax", "zoom_consistency">>[k]
           /\ (cli.pc = "done") =>
                 /\ Len(cli.runs) = 4
                 /\ asked[1] + asked[2] + asked[3] + asked[4] = 4 * q
                 /\ n - 4 * q \in 0..3

\* 6 samples were asked for and each of the four tasks has run with 1
C27_Witness ==
    /\ cli.pc = "done"
    /\ cli.task = "all"
    /\ cli.requested = 6
    /\ Len(cli.runs) = 4
    /\ cli.runs[4].num_samples = 1

\* ---- C28 ----
\* C28: generate_dataset called with num_samples = 0 does not raise: it goes
\* through an empty collection loop and returns an empty dataset, and no job
\* is submitted and no output directory made.
C28_ZeroJobs ==
    (N = 0 /\ pc_main \notin {"init", "ctor_raised", "start"}) =>
        /\ pc_main \in {"collecting", "returned"}
        /\ pairs = <<>>
        /\ fut = <<>>
        /\ fs = <<>>

\* ---- C29 ----
\* C29: in every state of the collection loop ok + fail is the number of
\* results collected so far and the number of pairs is ok; when the loop has
\* run out of futures and generate_dataset returns, ok + fail = N.
C29_LoopCounts ==
    /\ ok + fail = Cardinality(collected)
    /\ Len(pairs) = ok
    /\ (pc_main = "returned") => ok + fail = N

\* a run of two jobs has returned with one success and one failure
C29_Witness ==
    /\ pc_main = "returned"
    /\ N = 2
    /\ ok = 1
    /\ fail = 1

\* ---- C30 ----
\* C30: with max_retries <= 0 a job goes from the draw of _render_one
\* straight to a failed result: no renderer call and no timeout given, no
\* draw beyond that first one, its output directory as it was made, never
\* cleared or written; and the run counts every job as failed.
C30_NoAttempts ==
    (config.max_retries <= 0) =>
        /\ \A f \in Futures :
              /\ fut[f].pc \in {"pending", "returned"}
              /\ fut[f].calls = 0
              /\ fut[f].timeout = 0
              /\ fut[f].draws <= 1
              /\ (fut[f].pc = "returned") =>
                    /\ ~fut[f].result.success
                    /\ fut[f].result.task_id = fut[f].task_id
                    /\ fs[Out(f)] = [files |-> {}, vsize |-> 0, vby |-> 0, users |-> {}]
        /\ ok = 0
        /\ pairs = <<>>
        /\ (pc_main = "returned") => fail = N

\* both jobs of a run with max_retries = 0 have been collected as failed
C30_Witness ==
    /\ config.max_retries = 0
    /\ N = 2
    /\ pc_main = "returned"
    /\ fail = 2
    /\ \A f \in Futures : fut[f].pc = "returned" /\ fut[f].draws = 1

\* ---- C31 ----
OverrideUsable == env.blender.override = "given" /\ env.blender.override_exists

CandidateExists(k) == env.blender.cand[k] = "exists"

NoBinaryAnywhere ==
    /\ ~OverrideUsable
    /\ \A k \in DOMAIN env.blender.cand : ~CandidateExists(k)

\* C31: a constructor that has run has either kept a binary that exists (the
\* override when it is given and exists, otherwise the first existing
\* candidate in the fixed order, whether or not an override was given) or,
\* when no path exists, has raised FileNotFoundError; and in a run with no
\* binary anywhere no job is ever submitted and no output directory made.
C31_FindBlender ==
    /\ (pc_main # "init" /\ ~NoBinaryAnywhere) =>
          /\ ctor_exc = "none"
          /\ OverrideUsable => blender = [kind |-> "override", idx |-> 0]
          /\ ~OverrideUsable =>
                /\ blender.kind = "candidate"
                /\ blender.idx \in DOMAIN env.blender.cand
                /\ CandidateExists(blender.idx)
                /\ \A k \in 1..(blender.idx - 1) : ~CandidateExists(k)
    /\ NoBinaryAnywhere =>
          /\ pc_main \in {"init", "ctor_raised"}
          /\ (pc_main = "ctor_raised") => ctor_exc = "FileNotFoundError"
          /\ blender = NoBlender
          /\ fut = <<>>
          /\ fs = <<>>
          /\ pairs = <<>>

\* an override that does not exist was replaced by the third candidate, the
\* first one that exists, and the job of the run has been rendered with it
C31_Witness ==
    /\ env.blender.override = "given"
    /\ ~env.blender.override_exists
    /\ ~CandidateExists(1) /\ ~CandidateExists(2) /\ CandidateExists(3)
    /\ blender = [kind |-> "candidate", idx |-> 3]
    /\ pc_main = "returned"
    /\ ok = 1

\* ---- C32 ----
\* what a scheduler holds apart from the domain name in its task ids
JobNumbers(ids) == [k \in DOMAIN ids |-> ids[k].num]

SameScheduling(a, b) ==
    /\ a.pc = b.pc
    /\ a.n = b.n
    /\ a.workers = b.workers
    /\ JobNumbers(a.futs) = JobNumbers(b.futs)
    /\ a.collected = b.collected
    /\ a.ok = b.ok
    /\ a.fail = b.fail
    /\ a.log = b.log
    /\ JobNumbers(a.pairs) = JobNumbers(b.pairs)

\* C32: given the same N, worker bound, completion order and per-job
\* outcomes, the generate_dataset of the four tasks are at the same
\* position with the same pool size, the same jobs submitted and collected,
\* the same counters, the same progress lines and pairs for the same jobs in
\* the same order; the task ids of each carry its own domain name.
C32_SchedulersEquivalent ==
    (sch.pc # "none") =>
        \A k1 \in TaskKinds :
            /\ \A k2 \in TaskKinds : SameScheduling(sch.st[k1], sch.st[k2])
            /\ \A i \in DOMAIN sch.st[k1].futs : sch.st[k1].futs[i].domain = k1
            /\ \A i \in DOMAIN sch.st[k1].pairs : sch.st[k1].pairs[i].domain = k1

\* the four schedulers have returned from a batch of eleven jobs with two
\* pairs each and the progress lines of the tenth and the last completion
C32_Witness ==
    /\ sch.pc = "closed"
    /\ sch.n = 11
    /\ \A kind \in TaskKinds :
          /\ sch.st[kind].pc = "returned"
          /\ sch.st[kind].ok = 2
          /\ sch.st[kind].fail = 9
          /\ Len(sch.st[kind].pairs) = 2
          /\ Len(sch.st[kind].log) = 2
          /\ sch.st[kind].log[1].done = 10

====
